---- MODULE Spec2Model ----
(***************************************************************************)
(* A model of the Dropbox core API client of src/dropbox.go.               *)
(*                                                                         *)
(* The client is synchronous: a call builds requests, hands them to the    *)
(* HTTP transport and decodes the replies.  The transport and the server   *)
(* are the environment: every reply (a transport failure, a status code,   *)
(* a body) is drawn from a small set.  The state is the call in progress   *)
(* (op, args), the requests it has issued with the replies they got (net), *)
(* the locals of the UploadByChunk loop (cur, err, input) and the values    *)
(* the call returned (ret), and the destination file of a download on the  *)
(* local disk (fs).  A new call discards what the last one left.           *)
(* Byte counts are real byte counts.                                       *)
(***************************************************************************)
EXTENDS Integers, Sequences, FiniteSets, TLC

VARIABLES op, args, pc, net, cur, err, input, ret, fs

vars == <<op, args, pc, net, cur, err, input, ret, fs>>

(***************************************************************************)
(* Bounds of the model.                                                    *)
(***************************************************************************)
\* The longest run of chunk calls one UploadByChunk run is driven through.
MaxChunkCalls == 4
\* The sources of at most this many bytes are all uploaded.
MaxSmallSize == 3
\* The longest entries list of a delta reply.
MaxEntries == 3
\* The longest remote file downloaded, in bytes.
MaxRemoteLen == 3

(***************************************************************************)
(* The constants of the package.                                           *)
(***************************************************************************)
PollMinTimeout == 30
PollMaxTimeout == 480
DefaultChunkSize == 4 * 1024 * 1024
MaxPutFileSize == 150 * 1024 * 1024
MetadataLimitMax == 25000
MetadataLimitDefault == 10000
RevisionsLimitMax == 1000
RevisionsLimitDefault == 10
SearchLimitMax == 1000
SearchLimitDefault == 1000

\* The status codes doRequest and LongPollDelta tell apart.
StatusBadRequest == 400
StatusUnauthorized == 401
StatusNotFound == 404
StatusMethodNotAllowed == 405
\* The status code Thumbnails tells apart.
StatusUnsupportedMediaType == 415

Min(a, b) == IF a < b THEN a ELSE b

(***************************************************************************)
(* Errors.  A Go error value is a record: its kind and its message.        *)
(***************************************************************************)
NoErr == [kind |-> "nil", msg |-> ""]
\* io.EOF
ErrEOF == [kind |-> "io.EOF", msg |-> "EOF"]
\* os.ErrNotExist
ErrNotExist == [kind |-> "os.ErrNotExist", msg |-> "file does not exist"]
ErrNotAuth == [kind |-> "ErrNotAuth", msg |-> "authentication required"]
\* What the transport returns when the request could not be carried out.
ErrTransport == [kind |-> "transport", msg |-> "transport"]
\* http.NewRequest refusing the URL.
ErrNewRequest == [kind |-> "url", msg |-> "parse"]
\* ioutil.ReadAll failing on the response body.
ErrRead == [kind |-> "read", msg |-> "read"]
\* encoding/json: the text is not JSON.
ErrJSONSyntax == [kind |-> "json", msg |-> "syntax"]
\* encoding/json: a value of the text does not fit the Go type.
ErrJSONType == [kind |-> "json", msg |-> "type"]
\* os.Create or os.OpenFile failing.
ErrOpen == [kind |-> "os", msg |-> "open"]
\* fd.Stat failing.
ErrStat == [kind |-> "os", msg |-> "stat"]
\* io.Copy failing: the remote stream broke or the disk refused the write.
ErrCopy == [kind |-> "io", msg |-> "copy"]
\* fmt.Errorf
Errorf(m) == [kind |-> "errorf", msg |-> m]

(***************************************************************************)
(* JSON texts, as encoding/json sees them.  JInvalid is a text that is not *)
(* JSON.  An object is a function from its keys to JSON values.            *)
(***************************************************************************)
JInvalid == [t |-> "invalid"]
JNull == [t |-> "null"]
JStr(s) == [t |-> "str", s |-> s]
JNum(n) == [t |-> "num", n |-> n]
JBool(b) == [t |-> "bool", b |-> b]
JArr(a) == [t |-> "arr", a |-> a]
JObj(o) == [t |-> "obj", o |-> o]

\* The Go value a JSON scalar or array decodes to.  An array of arrays is
\* kept as the list of its elements' items ([][]json.RawMessage); a null
\* element is the nil slice.
GoValue(j) ==
    CASE j.t = "str" -> j.s
      [] j.t = "num" -> j.n
      [] j.t = "bool" -> j.b
      [] j.t = "arr" -> [i \in DOMAIN j.a |-> IF j.a[i].t = "arr" THEN j.a[i].a ELSE <<>>]

\* Whether JSON value j fits a Go field of type ty ("str", "num", "bool",
\* or "arr" for [][]json.RawMessage).
Fits(j, ty) ==
    /\ j.t = ty
    /\ ty = "arr" => \A i \in DOMAIN j.a : j.a[i].t \in {"arr", "null"}

\* json.Unmarshal(text, &v) for a struct v.  schema maps each Go field to
\* its JSON key and type, v0 is v before the call.  A text that is not JSON
\* leaves v alone; null leaves v alone and is no error; a key the struct
\* does not have is skipped; a value of the wrong type leaves its field
\* alone, the other fields are still decoded, and the error is returned.
Unmarshal(j, schema, v0) ==
    IF j.t = "invalid" THEN [val |-> v0, err |-> ErrJSONSyntax]
    ELSE IF j.t = "null" THEN [val |-> v0, err |-> NoErr]
    ELSE IF j.t # "obj" THEN [val |-> v0, err |-> ErrJSONType]
    ELSE LET has(f) == schema[f].key \in DOMAIN j.o
             at(f) == j.o[schema[f].key]
             bad == {f \in DOMAIN schema :
                        has(f) /\ at(f).t # "null" /\ ~Fits(at(f), schema[f].type)}
         IN [val |-> [f \in DOMAIN schema |->
                        IF has(f) /\ Fits(at(f), schema[f].type)
                        THEN GoValue(at(f)) ELSE v0[f]],
             err |-> IF bad = {} THEN NoErr ELSE ErrJSONType]

\* strconv.FormatBool
FormatBool(b) == IF b THEN "true" ELSE "false"
\* strconv.FormatInt(int64(n), 10)
FormatInt(n) == ToString(n)

(***************************************************************************)
(* The reply of the transport to one request: ok is FALSE when the call    *)
(* returned an error instead of a response; readok is FALSE when reading   *)
(* the response body failed.                                               *)
(***************************************************************************)
Reply(status, body) == [ok |-> TRUE, status |-> status, readok |-> TRUE, body |-> body]
TransportFailure == [ok |-> FALSE, status |-> 0, readok |-> FALSE, body |-> JInvalid]
ReadFailure(status) == [ok |-> TRUE, status |-> status, readok |-> FALSE, body |-> JInvalid]

\* The error envelope {"error": "<string>"}.
ErrorBody(m) == JObj([error |-> JStr(m)])

\* A path argument with its leading '/' removed.  Paths are sequences of
\* characters.
StripSlash(p) == IF p[1] = "/" THEN Tail(p) ELSE p

(***************************************************************************)
(* Entry, and its JSON shape.  Path and Bytes stand for the string and     *)
(* number fields, IsDir for the boolean ones.                              *)
(***************************************************************************)
EntrySchema ==
    [Path |-> [key |-> "path", type |-> "str"],
     Bytes |-> [key |-> "bytes", type |-> "num"],
     IsDir |-> [key |-> "is_dir", type |-> "bool"]]
\* var rv Entry
ZeroEntry == [Path |-> "", Bytes |-> 0, IsDir |-> FALSE]
\* json.Marshal of an Entry: every field is written under its key.
MarshalEntry(e) ==
    JObj([path |-> JStr(e.Path), bytes |-> JNum(e.Bytes), is_dir |-> JBool(e.IsDir)])

(***************************************************************************)
(* Chunked upload.                                                         *)
(***************************************************************************)
ChunkSchema ==
    [UploadID |-> [key |-> "upload_id", type |-> "str"],
     Offset |-> [key |-> "offset", type |-> "num"]]
\* var cur ChunkUploadResponse
ZeroChunk == [UploadID |-> "", Offset |-> 0]
\* A *ChunkUploadResponse: nil, or a pointer to a response.
NilSession == [isnil |-> TRUE, UploadID |-> "", Offset |-> 0]
\* SessionOf handing back no session at all.
SessionOf_Nil(c) == NilSession

\* return &cur, err
SessionOf(c) == [isnil |-> FALSE, UploadID |-> c.UploadID, Offset |-> c.Offset]

\* The chunk size ChunkedUpload uses.
ClampChunkSize(chunksize) ==
    IF chunksize <= 0 THEN DefaultChunkSize
    ELSE IF chunksize > MaxPutFileSize THEN MaxPutFileSize
    ELSE chunksize

\* ChunkURL with the byte offset of the session left out of the URL.
ChunkURL_NoOffset(session) ==
    IF ~session.isnil
    THEN [endpoint |-> "chunked_upload", session |-> TRUE,
          upload_id |-> session.UploadID, offset |-> 0]
    ELSE [endpoint |-> "chunked_upload", session |-> FALSE, upload_id |-> "", offset |-> 0]

\* The URL ChunkedUpload posts to.
ChunkURL(session) ==
    IF ~session.isnil
    THEN [endpoint |-> "chunked_upload", session |-> TRUE,
          upload_id |-> session.UploadID, offset |-> session.Offset]
    ELSE [endpoint |-> "chunked_upload", session |-> FALSE, upload_id |-> "", offset |-> 0]

\* ChunkEOF signalling the end of the input only once a chunk came up empty.
ChunkEOF_OnEmptyChunk(c, sent, decodeErr) == IF sent = 0 THEN ErrEOF ELSE decodeErr

\* What the error of the decoding becomes once the LimitedReader is looked
\* at: r.N, the bytes of chunk size c not read, is c - sent after the
\* request.
ChunkEOF(c, sent, decodeErr) == IF c - sent # 0 THEN ErrEOF ELSE decodeErr

\* ChunkedUpload(session, input, chunksize) with `avail` bytes left in input
\* and the transport answering `reply`.  The transport reads the
\* LimitedReader to its end: sent bytes leave the input.
ChunkedUpload(session, avail, chunksize, reply) ==
    LET c == ClampChunkSize(chunksize)
        sent == Min(c, avail)
        request == ChunkURL(session) @@ [bytes |-> sent, reply |-> reply]
        dec == IF reply.readok THEN Unmarshal(reply.body, ChunkSchema, ZeroChunk)
               ELSE [val |-> ZeroChunk, err |-> ErrRead]
    IN IF ~reply.ok
       THEN [session |-> NilSession, err |-> ErrTransport, request |-> request, sent |-> sent]
       ELSE [session |-> SessionOf(dec.val), err |-> ChunkEOF(c, sent, dec.err),
             request |-> request, sent |-> sent]

\* The query parameters of the commit request.
CommitParams(uploadid, overwrite, parentRev) ==
    LET params == [locale |-> "en", upload_id |-> uploadid, overwrite |-> FormatBool(overwrite)]
    IN IF parentRev # "" THEN ("parent_rev" :> parentRev) @@ params ELSE params

\* What CommitChunkedUpload returns for the reply it got.
CommitResult(reply) ==
    IF ~reply.ok THEN [entry |-> [isnil |-> TRUE, val |-> ZeroEntry], err |-> ErrTransport]
    ELSE LET dec == IF reply.readok THEN Unmarshal(reply.body, EntrySchema, ZeroEntry)
                    ELSE [val |-> ZeroEntry, err |-> ErrRead]
         IN [entry |-> [isnil |-> FALSE, val |-> dec.val], err |-> dec.err]

\* CommitChunkedUpload(uploadid, dst, overwrite, parentRev) with the
\* transport answering `reply`.
CommitChunkedUpload(uploadid, dst, overwrite, parentRev, reply) ==
    [request |-> [endpoint |-> "commit_chunked_upload", dst |-> StripSlash(dst),
                  params |-> CommitParams(uploadid, overwrite, parentRev),
                  reply |-> reply],
     ret |-> CommitResult(reply)]

(***************************************************************************)
(* The request executor.                                                   *)
(***************************************************************************)
\* The error doRequest builds from the body of a 400 or 405 reply:
\* json.Unmarshal(body, &reqerr), then the switch on reqerr.Error.  order is
\* the order in which `range` visits the keys of the parameter map.
EnvelopeError(body, status, order) ==
    IF body.t = "invalid" THEN ErrJSONSyntax
    ELSE IF body.t \notin {"obj", "null"} THEN ErrJSONType
    ELSE IF body.t = "null" \/ "error" \notin DOMAIN body.o
    THEN Errorf("request error HTTP code " \o ToString(status))
    ELSE LET v == body.o["error"]
         IN IF v.t = "str" THEN Errorf(v.s)
            ELSE IF v.t = "obj"
            THEN LET strs == {i \in DOMAIN order :
                                 order[i] \in DOMAIN v.o /\ v.o[order[i]].t = "str"}
                 IN IF strs = {} THEN Errorf("wrong parameter")
                    ELSE LET i == CHOOSE i \in strs : \A k \in strs : i <= k
                         IN Errorf(order[i] \o ": " \o v.o[order[i]].s)
            ELSE Errorf("request error HTTP code " \o ToString(status))

\* json.Unmarshal(text, &rv) for rv a []Entry: an array of objects.
UnmarshalEntries(j) ==
    IF j.t = "invalid" THEN [val |-> <<>>, err |-> ErrJSONSyntax]
    ELSE IF j.t = "null" THEN [val |-> <<>>, err |-> NoErr]
    ELSE IF j.t # "arr" THEN [val |-> <<>>, err |-> ErrJSONType]
    ELSE LET dec == [i \in DOMAIN j.a |-> Unmarshal(j.a[i], EntrySchema, ZeroEntry)]
         IN [val |-> [i \in DOMAIN j.a |-> dec[i].val],
             err |-> IF \A i \in DOMAIN j.a : dec[i].err = NoErr
                     THEN NoErr ELSE ErrJSONType]

\* json.Unmarshal(body, receiver): receiver points to a []Entry or to a
\* struct of the given schema, holding zero.
UnmarshalInto(body, receiver) ==
    IF receiver.kind = "slice" THEN UnmarshalEntries(body)
    ELSE Unmarshal(body, receiver.schema, receiver.zero)

\* doRequest(method, path, params, receiver): urlok is whether
\* http.NewRequest accepts the URL, reply what the transport answers.
\* val is what receiver points to afterwards.
doRequest(method, path, params, receiver, urlok, reply, order) ==
    LET none == IF receiver.kind = "slice" THEN <<>> ELSE receiver.zero
        request == [method |-> method, endpoint |-> path, params |-> params,
                    reply |-> reply]
    IN IF ~urlok THEN [requests |-> <<>>, err |-> ErrNewRequest, val |-> none]
       ELSE IF ~reply.ok
       THEN [requests |-> <<request>>, err |-> ErrTransport, val |-> none]
       ELSE IF ~reply.readok
       THEN [requests |-> <<request>>, err |-> ErrRead, val |-> none]
       ELSE IF reply.status = StatusNotFound
       THEN [requests |-> <<request>>, err |-> ErrNotExist, val |-> none]
       ELSE IF reply.status \in {StatusBadRequest, StatusMethodNotAllowed}
       THEN [requests |-> <<request>>,
             err |-> EnvelopeError(reply.body, reply.status, order), val |-> none]
       ELSE IF reply.status = StatusUnauthorized
       THEN [requests |-> <<request>>, err |-> ErrNotAuth, val |-> none]
       ELSE LET dec == UnmarshalInto(reply.body, receiver)
            IN [requests |-> <<request>>, err |-> dec.err, val |-> dec.val]

\* The receivers of the calls.
EntryReceiver == [kind |-> "struct", schema |-> EntrySchema, zero |-> ZeroEntry]
EntriesReceiver == [kind |-> "slice"]

\* Metadata sending the default for a limit above the maximum.
MetadataLimit_DefaultAboveMax(limit) ==
    IF limit <= 0 \/ limit > MetadataLimitMax THEN MetadataLimitDefault ELSE limit

\* The limit Metadata sends.
MetadataLimit(limit) ==
    IF limit <= 0 THEN MetadataLimitDefault
    ELSE IF limit > MetadataLimitMax THEN MetadataLimitMax
    ELSE limit

\* The limit Search sends.
SearchLimit(fileLimit) ==
    IF fileLimit <= 0 \/ fileLimit > SearchLimitMax THEN SearchLimitDefault ELSE fileLimit

\* The limit Revisions sends.
RevisionsLimit(revLimit) ==
    IF revLimit <= 0 THEN RevisionsLimitDefault
    ELSE IF revLimit > RevisionsLimitMax THEN RevisionsLimitMax
    ELSE revLimit

\* The query parameters of Metadata.
MetadataParams(list, includeDeleted, hash, rev, limit) ==
    LET base == [list |-> FormatBool(list),
                 include_deleted |-> FormatBool(includeDeleted),
                 file_limit |-> FormatInt(MetadataLimit(limit))]
        withRev == IF rev # "" THEN ("rev" :> rev) @@ base ELSE base
    IN IF hash # "" THEN ("hash" :> hash) @@ withRev ELSE withRev

\* The query parameters of Search.
SearchParams(query, fileLimit, includeDeleted) ==
    [query |-> query,
     file_limit |-> FormatInt(SearchLimit(fileLimit)),
     include_deleted |-> FormatBool(includeDeleted)]

\* The query parameters of Revisions.
RevisionsParams(revLimit) == [rev_limit |-> FormatInt(RevisionsLimit(revLimit))]

(***************************************************************************)
(* Delta.                                                                  *)
(***************************************************************************)
\* type deltaPageParser
DeltaSchema ==
    [Reset |-> [key |-> "reset", type |-> "bool"],
     HasMore |-> [key |-> "has_more", type |-> "bool"],
     Cursor |-> [key |-> "cursor", type |-> "str"],
     Entries |-> [key |-> "entries", type |-> "arr"]]
\* var dpp deltaPageParser
ZeroDeltaPage == [Reset |-> FALSE, HasMore |-> FALSE, Cursor |-> "", Entries |-> <<>>]
DeltaReceiver == [kind |-> "struct", schema |-> DeltaSchema, zero |-> ZeroDeltaPage]

\* The query parameters of Delta.
DeltaParams(cursor, pathPrefix) ==
    LET withCursor == IF cursor # "" THEN ("cursor" :> cursor) ELSE <<>>
    IN IF pathPrefix # "" THEN ("path_prefix" :> pathPrefix) @@ withCursor ELSE withCursor

\* json.Unmarshal(text, &path) for path a string holding v0.
UnmarshalString(j, v0) ==
    IF j.t = "str" THEN [val |-> j.s, err |-> NoErr]
    ELSE IF j.t = "null" THEN [val |-> v0, err |-> NoErr]
    ELSE [val |-> v0, err |-> ErrJSONType]

\* MalformedElement letting an element of more than two items through.
MalformedElement_TooShort(jentry) == Len(jentry) < 2

\* Whether Delta refuses the element for its length.
MalformedElement(jentry) == Len(jentry) # 2

\* EntryAddr with `entry` declared once, outside the loop.
EntryAddr_Hoisted(i) == 1

\* The address of the variable `entry` of the i-th turn of the loop, which
\* declares it anew each turn.  Address 0 is nil.
EntryAddr(i) == i

\* What Delta returns when it gives up: no page, and the error.
DeltaFailed(e) == [isnil |-> TRUE, entries |-> <<>>, heap |-> <<>>, err |-> e]

\* The loop of Delta over dpp.Entries, from its i-th element on: entries is
\* rv.Entries so far, heap the Entry variables written so far, e is err.
RECURSIVE DeltaEntries(_, _, _, _, _)
DeltaEntries(jentries, i, entries, heap, e) ==
    IF i > Len(jentries)
    THEN [isnil |-> FALSE, entries |-> entries, heap |-> heap, err |-> e]
    ELSE LET jentry == jentries[i]
         IN IF MalformedElement(jentry) THEN DeltaFailed(Errorf("malformed reply"))
            ELSE LET path == UnmarshalString(jentry[1], "")
                     entry == Unmarshal(jentry[2], EntrySchema, ZeroEntry)
                     addr == EntryAddr(i)
                 IN IF path.err # NoErr THEN DeltaFailed(path.err)
                    ELSE IF entry.err # NoErr THEN DeltaFailed(entry.err)
                    ELSE DeltaEntries(
                             jentries, i + 1,
                             Append(entries,
                                    [Path |-> path.val,
                                     Entry |-> IF entry.val.Path = "" THEN 0 ELSE addr]),
                             (addr :> entry.val) @@ heap,
                             entry.err)

\* Delta(cursor, pathPrefix) with the transport answering `reply`.  The page
\* returned is nil or points to a DeltaPage; heap holds the Entry values its
\* DeltaEntry pointers point to.
Delta(cursor, pathPrefix, reply, order) ==
    LET r == doRequest("POST", <<"delta">>, DeltaParams(cursor, pathPrefix),
                       DeltaReceiver, TRUE, reply, order)
        dpp == r.val
        loop == DeltaEntries(dpp.Entries, 1, <<>>, <<>>, r.err)
    IN [requests |-> r.requests,
        page |-> [isnil |-> loop.isnil, Reset |-> dpp.Reset, HasMore |-> dpp.HasMore,
                  Cursor |-> dpp.Cursor, Entries |-> loop.entries],
        heap |-> loop.heap,
        err |-> loop.err]

(***************************************************************************)
(* LongPollDelta.                                                          *)
(***************************************************************************)
\* type DeltaPoll
PollSchema ==
    [Changes |-> [key |-> "changes", type |-> "bool"],
     Backoff |-> [key |-> "backoff", type |-> "num"]]
\* var rv DeltaPoll
ZeroPoll == [Changes |-> FALSE, Backoff |-> 0]

\* TimeoutOutOfRange refusing the two ends of the range as well.
TimeoutOutOfRange_Exclusive(timeout) ==
    timeout # 0 /\ (timeout <= PollMinTimeout \/ timeout >= PollMaxTimeout)

\* Whether LongPollDelta refuses the timeout.
TimeoutOutOfRange(timeout) ==
    timeout # 0 /\ (timeout < PollMinTimeout \/ timeout > PollMaxTimeout)

\* The query parameters of LongPollDelta.
LongPollParams(cursor, timeout) ==
    LET withTimeout == IF timeout # 0 THEN ("timeout" :> FormatInt(timeout)) ELSE <<>>
    IN ("cursor" :> cursor) @@ withTimeout

\* The error LongPollDelta builds from the body of a 400 reply:
\* fmt.Errorf("%s", reqerr.Error).
LongPollError(body) ==
    IF body.t = "invalid" THEN ErrJSONSyntax
    ELSE IF body.t \notin {"obj", "null"} THEN ErrJSONType
    ELSE IF body.t = "null" \/ "error" \notin DOMAIN body.o THEN Errorf("%!s(<nil>)")
    ELSE IF body.o["error"].t = "str" THEN Errorf(body.o["error"].s)
    ELSE Errorf("%!s(" \o body.o["error"].t \o ")")

\* LongPollDelta(cursor, timeout) with the transport answering `reply`.
LongPollDelta(cursor, timeout, reply) ==
    LET request == [method |-> "GET", endpoint |-> <<"longpoll_delta">>,
                    params |-> LongPollParams(cursor, timeout), reply |-> reply]
        nothing == [isnil |-> TRUE, val |-> ZeroPoll]
    IN IF TimeoutOutOfRange(timeout)
       THEN [requests |-> <<>>, poll |-> nothing,
             err |-> Errorf("timeout out of range [" \o ToString(PollMinTimeout) \o "; "
                            \o ToString(PollMaxTimeout) \o "]")]
       ELSE IF ~reply.ok
       THEN [requests |-> <<request>>, poll |-> nothing, err |-> ErrTransport]
       ELSE IF ~reply.readok
       THEN [requests |-> <<request>>, poll |-> nothing, err |-> ErrRead]
       ELSE IF reply.status = StatusBadRequest
       THEN [requests |-> <<request>>, poll |-> nothing, err |-> LongPollError(reply.body)]
       ELSE LET dec == Unmarshal(reply.body, PollSchema, ZeroPoll)
            IN [requests |-> <<request>>, poll |-> [isnil |-> FALSE, val |-> dec.val],
                err |-> dec.err]

(***************************************************************************)
(* FilesPut.                                                               *)
(***************************************************************************)
\* TooBigForPut refusing a file of exactly MaxPutFileSize as well.
TooBigForPut_Inclusive(size) == size >= MaxPutFileSize

\* Whether FilesPut refuses the declared size.
TooBigForPut(size) == size > MaxPutFileSize

\* Whether http.NewRequest accepts a URL that holds path p: it refuses a
\* bad percent escape.
PathParses(p) == \A i \in DOMAIN p : p[i] # "%"

\* The query parameters of FilesPut.
FilesPutParams(overwrite, parentRev) ==
    LET params == [overwrite |-> FormatBool(overwrite)]
    IN IF parentRev # "" THEN ("parent_rev" :> parentRev) @@ params ELSE params

\* FilesPut(input, size, dst, overwrite, parentRev) with `avail` bytes in
\* input and the transport answering `reply`.  read is the bytes taken from
\* input: the transport reads the body of a request to its end.
FilesPut(avail, size, dst, overwrite, parentRev, reply) ==
    LET nothing == [isnil |-> TRUE, val |-> ZeroEntry]
        request == [method |-> "PUT", endpoint |-> <<"files_put", "dropbox">>,
                    dst |-> StripSlash(dst),
                    params |-> FilesPutParams(overwrite, parentRev),
                    header |-> [ContentLength |-> FormatInt(size)],
                    reply |-> reply]
    IN IF TooBigForPut(size)
       THEN [requests |-> <<>>, read |-> 0, entry |-> nothing,
             err |-> Errorf("could not upload files bigger than 150MB using this method, use UploadByChunk instead")]
       ELSE IF ~PathParses(StripSlash(dst))
       THEN [requests |-> <<>>, read |-> 0, entry |-> nothing, err |-> ErrNewRequest]
       ELSE IF ~reply.ok
       THEN [requests |-> <<request>>, read |-> avail, entry |-> nothing,
             err |-> ErrTransport]
       ELSE LET dec == IF reply.readok THEN Unmarshal(reply.body, EntrySchema, ZeroEntry)
                       ELSE [val |-> ZeroEntry, err |-> ErrRead]
            IN [requests |-> <<request>>, read |-> avail,
                entry |-> [isnil |-> FALSE, val |-> dec.val], err |-> dec.err]

(***************************************************************************)
(* Downloads to a local file.  The destination is absent or holds bytes.   *)
(***************************************************************************)
NoFile == [exists |-> FALSE, bytes |-> <<>>]
FileOf(b) == [exists |-> TRUE, bytes |-> b]
\* os.Create(dst): the file is created, or truncated when it exists.
Create(f) == FileOf(<<>>)
\* os.OpenFile(dst, os.O_APPEND|os.O_CREATE|os.O_WRONLY, 0644)
OpenAppend(f) == IF f.exists THEN f ELSE FileOf(<<>>)
\* os.Remove(dst)
Remove(f) == NoFile

\* The Range header Download sets.
RangeHeader(offset) ==
    IF offset # 0 THEN [Range |-> "bytes=" \o ToString(offset) \o "-"] ELSE <<>>

\* Download(src, rev, offset) with the transport answering `reply`; the body
\* is handed over unread.
Download(src, rev, offset, reply) ==
    LET request == [method |-> "GET", endpoint |-> <<"files", "dropbox">>,
                    src |-> StripSlash(src), rev |-> rev,
                    header |-> RangeHeader(offset), reply |-> reply]
    IN IF ~PathParses(StripSlash(src))
       THEN [requests |-> <<>>, isnil |-> TRUE, err |-> ErrNewRequest]
       ELSE IF ~reply.ok
       THEN [requests |-> <<request>>, isnil |-> TRUE, err |-> ErrTransport]
       ELSE IF reply.status = StatusNotFound
       THEN [requests |-> <<request>>, isnil |-> TRUE, err |-> ErrNotExist]
       ELSE [requests |-> <<request>>, isnil |-> FALSE, err |-> NoErr]

\* io.Copy(fd, input): the bytes of the body go to the end of the file, all
\* of them or, when the copy fails, the first reply.failat of them.
Copy(f, reply) ==
    IF reply.failat < 0
    THEN [file |-> FileOf(f.bytes \o reply.bytes), err |-> NoErr]
    ELSE [file |-> FileOf(f.bytes \o SubSeq(reply.bytes, 1, reply.failat)),
          err |-> ErrCopy]

\* AfterCopy leaving what was written in place when the copy failed.
AfterCopy_KeepPartial(f, e) == f

\* if _, err = io.Copy(fd, input); err != nil { os.Remove(dst) }
AfterCopy(f, e) == IF e # NoErr THEN Remove(f) ELSE f

\* DownloadToFile(src, dst, rev) with the destination as f0; createok is
\* whether os.Create succeeds.
DownloadToFile(f0, createok, src, rev, reply) ==
    IF ~createok THEN [file |-> f0, requests |-> <<>>, err |-> ErrOpen]
    ELSE LET created == Create(f0)
             d == Download(src, rev, 0, reply)
             c == Copy(created, reply)
         IN IF d.err # NoErr
            THEN [file |-> Remove(created), requests |-> d.requests, err |-> d.err]
            ELSE [file |-> AfterCopy(c.file, c.err), requests |-> d.requests,
                  err |-> c.err]

\* DownloadToFileResume(src, dst, rev) with the destination as f0; openok is
\* whether os.OpenFile succeeds and statok whether fd.Stat does.
DownloadToFileResume(f0, openok, statok, src, rev, reply) ==
    IF ~openok THEN [file |-> f0, requests |-> <<>>, err |-> ErrOpen]
    ELSE LET opened == OpenAppend(f0)
             offset == Len(opened.bytes)
             d == Download(src, rev, offset, reply)
             c == Copy(opened, reply)
         IN IF ~statok
            THEN [file |-> opened, requests |-> <<>>, err |-> ErrStat]
            ELSE IF d.err # NoErr
            THEN [file |-> opened, requests |-> d.requests, err |-> d.err]
            ELSE [file |-> c.file, requests |-> d.requests, err |-> c.err]

\* A path as the string fmt.Sprintf("%s") prints.
RECURSIVE PathString(_)
PathString(p) == IF p = <<>> THEN "" ELSE Head(p) \o PathString(Tail(p))

\* Thumbnails(src, format, size) with the transport answering `reply`; the
\* entry is decoded from the x-dropbox-metadata header, errors ignored.
Thumbnails(src, format, size, reply) ==
    LET fmt == IF format = "" THEN "jpeg" ELSE format
        sz == IF size = "" THEN "s" ELSE size
        request == [method |-> "GET", endpoint |-> <<"thumbnails", "dropbox">>,
                    src |-> StripSlash(src), format |-> fmt, size |-> sz,
                    reply |-> reply]
        none == [isnil |-> TRUE, val |-> ZeroEntry]
    IN IF fmt \notin {"jpeg", "png"}
       THEN [requests |-> <<>>, isnil |-> TRUE, entry |-> none,
             err |-> Errorf("unsupported format '" \o format \o "' must be jpeg or png")]
       ELSE IF sz \notin {"xs", "s", "m", "l", "xl"}
       THEN [requests |-> <<>>, isnil |-> TRUE, entry |-> none,
             err |-> Errorf("unsupported size '" \o size
                            \o "' must be xs, s, m, l or xl")]
       ELSE IF ~PathParses(StripSlash(src))
       THEN [requests |-> <<>>, isnil |-> TRUE, entry |-> none, err |-> ErrNewRequest]
       ELSE IF ~reply.ok
       THEN [requests |-> <<request>>, isnil |-> TRUE, entry |-> none,
             err |-> ErrTransport]
       ELSE IF reply.status = StatusNotFound
       THEN [requests |-> <<request>>, isnil |-> TRUE, entry |-> none,
             err |-> ErrNotExist]
       ELSE IF reply.status = StatusUnsupportedMediaType
       THEN [requests |-> <<request>>, isnil |-> TRUE, entry |-> none,
             err |-> Errorf("the image located at '" \o PathString(StripSlash(src))
                            \o "' cannot be converted to a thumbnail")]
       ELSE [requests |-> <<request>>, isnil |-> FALSE,
             entry |-> [isnil |-> FALSE,
                        val |-> Unmarshal(reply.meta, EntrySchema, ZeroEntry).val],
             err |-> NoErr]

\* ThumbnailsToFile(src, dst, format, size) with the destination as f0.
ThumbnailsToFile(f0, createok, src, format, size, reply) ==
    IF ~createok
    THEN [file |-> f0, requests |-> <<>>, entry |-> [isnil |-> TRUE, val |-> ZeroEntry],
          err |-> ErrOpen]
    ELSE LET created == Create(f0)
             t == Thumbnails(src, format, size, reply)
             c == Copy(created, reply)
         IN IF t.err # NoErr
            THEN [file |-> Remove(created), requests |-> t.requests,
                  entry |-> [isnil |-> TRUE, val |-> ZeroEntry], err |-> t.err]
            ELSE [file |-> AfterCopy(c.file, c.err), requests |-> t.requests,
                  entry |-> t.entry, err |-> c.err]

(***************************************************************************)
(* The environment: the replies the server and the transport may give.     *)
(***************************************************************************)
UploadIDs == {"u1", "u2"}
\* The reply of chunked_upload: {"upload_id": id, "offset": off}.
ChunkBody(id, off) == JObj([upload_id |-> JStr(id), offset |-> JNum(off)])
\* The replies to a chunk call after which `total` bytes were sent in all.
ChunkReplies(total) ==
    {Reply(200, ChunkBody(id, total)) : id \in UploadIDs}
        \cup {Reply(200, ChunkBody("u1", 0)),
              Reply(200, JInvalid),
              Reply(200, JObj([upload_id |-> JStr("u1"), offset |-> JStr("x")])),
              Reply(StatusBadRequest, ErrorBody("bad offset")),
              ReadFailure(200),
              TransportFailure}

Entries ==
    {[Path |-> "/A", Bytes |-> 1, IsDir |-> FALSE],
     [Path |-> "/B", Bytes |-> 0, IsDir |-> TRUE]}
\* The replies to a commit call.
CommitReplies ==
    {Reply(200, MarshalEntry(e)) : e \in Entries}
        \cup {Reply(409, ErrorBody("parent_rev mismatch")),
              Reply(StatusBadRequest, ErrorBody("unknown upload_id")),
              Reply(200, JInvalid),
              ReadFailure(200),
              TransportFailure}

\* The sources uploaded and the chunk sizes asked for.
SrcSizes ==
    (0..MaxSmallSize)
        \cup {DefaultChunkSize - 1, DefaultChunkSize, DefaultChunkSize + 1,
              10 * 1024 * 1024, MaxPutFileSize, 2 * MaxPutFileSize}
ChunkSizes == {-1, 0, 1, 2, DefaultChunkSize, MaxPutFileSize + 1}
\* The chunk calls a source of n bytes takes with chunk size chunksize.
ChunkCallsNeeded(n, chunksize) == n \div ClampChunkSize(chunksize) + 1
Targets ==
    {[dst |-> <<"/", "f">>, overwrite |-> TRUE, parentRev |-> ""],
     [dst |-> <<"f">>, overwrite |-> FALSE, parentRev |-> "r1"]}

\* The source paths of the calls; the second is one http.NewRequest refuses
\* (a bad percent escape).
Srcs == {"a.txt", "%zz"}
URLParses(src) == src # "%zz"

\* The status codes the server answers with.
Statuses ==
    {200, StatusBadRequest, StatusUnauthorized, 403, StatusNotFound,
     StatusMethodNotAllowed, 500}
\* The error envelopes: a message, a map of parameters to reasons, and
\* envelopes that hold neither.
ErrorBodies ==
    {ErrorBody("bad request"),
     JObj([error |-> JObj([p1 |-> JStr("r1"), p2 |-> JStr("r2")])]),
     JObj([error |-> JObj([p1 |-> JNum(1)])]),
     JObj([error |-> JNum(5)])}
\* The orders in which a range over the parameter map may visit its keys.
RangeOrders == {<<"p1", "p2">>, <<"p2", "p1">>}
\* The replies to a request whose successful answers are `payloads`.
ApiReplies(payloads) ==
    {Reply(st, b) : st \in Statuses, b \in payloads \cup ErrorBodies \cup {JInvalid}}
        \cup {ReadFailure(200), TransportFailure}

\* The limits callers pass.
Limits ==
    {-1, 0, 1, 10, 999, 1000, 1001, 5000, 10000, 24999, 25000, 25001}
\* The other arguments of Metadata.
MetadataOptions ==
    {[list |-> TRUE, includeDeleted |-> FALSE, hash |-> "", rev |-> ""],
     [list |-> FALSE, includeDeleted |-> TRUE, hash |-> "h1", rev |-> "r1"]}
\* The body of a reply that lists entries.
EntryListBody == JArr(<<MarshalEntry([Path |-> "/A", Bytes |-> 1, IsDir |-> FALSE])>>)

\* The elements of the entries list of a delta reply: [path, entry] pairs for
\* changed and for deleted paths, pairs that do not decode, elements of 0, 1
\* and 3 items, and null.
GoodElements ==
    {JArr(<<JStr("/a"), MarshalEntry([Path |-> "/A", Bytes |-> 1, IsDir |-> FALSE])>>),
     JArr(<<JStr("/b"), MarshalEntry([Path |-> "/B", Bytes |-> 0, IsDir |-> TRUE])>>),
     JArr(<<JStr("/a"), JNull>>),
     JArr(<<JStr("/b"), MarshalEntry([Path |-> "", Bytes |-> 5, IsDir |-> FALSE])>>),
     JArr(<<JStr("/c"), JObj([path |-> JStr("/C")])>>)}
UndecodableElements ==
    {JArr(<<JNum(7), JNull>>),
     JArr(<<JStr("/a"), JObj([path |-> JStr("/A"), bytes |-> JStr("1")])>>)}
WrongLengthElements ==
    {JArr(<<>>),
     JArr(<<JStr("/a")>>),
     JArr(<<JStr("/a"), MarshalEntry([Path |-> "/A", Bytes |-> 1, IsDir |-> FALSE]), JNull>>),
     JNull}
WireElements == GoodElements \cup UndecodableElements \cup WrongLengthElements
\* The entries lists of the replies.
WireLists == UNION {[1..n -> WireElements] : n \in 0..MaxEntries}
\* The body of a delta reply, and one whose reset flag is not a boolean.
DeltaBody(list) ==
    JObj([reset |-> JBool(TRUE), has_more |-> JBool(FALSE), cursor |-> JStr("c2"),
          entries |-> JArr(list)])
DeltaBodyBadReset(list) ==
    JObj([reset |-> JStr("yes"), has_more |-> JBool(TRUE), cursor |-> JStr("c2"),
          entries |-> JArr(list)])
DeltaReplies ==
    {Reply(200, DeltaBody(l)) : l \in WireLists}
        \cup {Reply(200, DeltaBodyBadReset(l)) : l \in {w \in WireLists : Len(w) <= 2}}
        \cup {Reply(st, b) :
                st \in Statuses \ {200},
                b \in {ErrorBody("bad request"),
                       DeltaBody(<<JArr(<<JStr("/a"), JNull>>), JArr(<<>>)>>)}}
        \cup {Reply(200, JInvalid), ReadFailure(200), TransportFailure}
\* The cursor and path prefix Delta is called with.
DeltaArgs == {[cursor |-> "", pathPrefix |-> ""], [cursor |-> "c1", pathPrefix |-> "/p"]}

\* The timeouts LongPollDelta is called with.
Timeouts == {-30, -1, 0, 1, 29, 30, 31, 100, 479, 480, 481, 1000}
\* The replies to a long poll.
PollReplies ==
    {Reply(200, JObj([changes |-> JBool(c), backoff |-> JNum(b)])) :
        c \in BOOLEAN, b \in {0, 60}}
        \cup {Reply(StatusBadRequest, b) : b \in ErrorBodies \cup {JInvalid}}
        \cup {Reply(500, ErrorBody("bad request")),
              Reply(200, JInvalid), ReadFailure(200), TransportFailure}

\* The sizes FilesPut is told, and the destinations; the last is one
\* http.NewRequest refuses.
PutSizes ==
    {-1, 0, 1, MaxPutFileSize - 1, MaxPutFileSize, MaxPutFileSize + 1,
     200 * 1024 * 1024}
PutTargets ==
    Targets \cup {[dst |-> <<"/", "%", "z">>, overwrite |-> TRUE, parentRev |-> ""]}

\* The bytes of a remote file of n bytes.
RemoteBytes(n) == [i \in 1..n |-> i]
\* The destination before the call: absent, empty, the head of the remote
\* file, or bytes that come from elsewhere.
LocalFiles ==
    {NoFile} \cup {FileOf(RemoteBytes(k)) : k \in 0..(MaxRemoteLen - 1)}
             \cup {FileOf(<<9>>)}
\* A reply whose body is streamed: the copy reads all of it (failat = -1) or
\* fails after failat bytes.  meta is the x-dropbox-metadata header.
Stream(status, bytes, failat, meta) ==
    [ok |-> TRUE, status |-> status, bytes |-> bytes, failat |-> failat, meta |-> meta]
Streams(status, bytes) == {Stream(status, bytes, f, JInvalid) : f \in -1..Len(bytes)}
StreamFailure == [ok |-> FALSE, status |-> 0, bytes |-> <<>>, failat |-> -1, meta |-> JInvalid]
\* The replies to a download asking for the bytes from offset on: the server
\* honours the range, or ignores it and sends the whole file, or refuses.
DownloadReplies(offset) ==
    UNION {Streams(IF offset = 0 THEN 200 ELSE 206, SubSeq(RemoteBytes(n), offset + 1, n))
             \cup Streams(200, RemoteBytes(n)) : n \in 0..MaxRemoteLen}
        \cup Streams(StatusNotFound, <<0>>)
        \cup Streams(500, <<0>>)
        \cup {StreamFailure}
DownloadSrcs == {<<"/", "a">>, <<"a">>, <<"%">>}
Revs == {"", "r1"}
ThumbnailFormats == {"", "jpeg", "png", "gif"}
ThumbnailSizes == {"", "m", "huge"}
ThumbnailReplies ==
    UNION {{Stream(200, RemoteBytes(n), f, meta) :
              f \in -1..n, meta \in {MarshalEntry(e) : e \in Entries} \cup {JInvalid}}
           : n \in 0..MaxRemoteLen}
        \cup Streams(StatusNotFound, <<0>>)
        \cup Streams(StatusUnsupportedMediaType, <<0>>)
        \cup Streams(500, <<0>>)
        \cup {StreamFailure}

NoArgs == <<>>
NoRet == [returned |-> FALSE]

Init ==
    /\ op = "none"
    /\ args = NoArgs
    /\ pc = "idle"
    /\ net = <<>>
    /\ cur = NilSession
    /\ err = NoErr
    /\ input = 0
    /\ ret = NoRet
    /\ fs = NoFile

(***************************************************************************)
(* UploadByChunk: the call, one turn of its loop, and the commit.          *)
(***************************************************************************)
UploadByChunkCall ==
    /\ pc = "idle"
    /\ \E n \in SrcSizes, chunksize \in ChunkSizes, target \in Targets :
         /\ ChunkCallsNeeded(n, chunksize) <= MaxChunkCalls
         /\ op' = "UploadByChunk"
         /\ args' = [size |-> n, chunksize |-> chunksize, dst |-> target.dst,
                     overwrite |-> target.overwrite, parentRev |-> target.parentRev]
         /\ input' = n
    /\ pc' = "loop"
    /\ net' = <<>>
    /\ cur' = NilSession
    /\ err' = NoErr
    /\ ret' = NoRet
    /\ fs' = fs

\* for err == nil { if cur, err = ChunkedUpload(...); err != nil && err != io.EOF { return nil, err } }
UploadByChunkLoop ==
    /\ pc = "loop"
    /\ err = NoErr
    /\ \E reply \in ChunkReplies(args.size - input + Min(ClampChunkSize(args.chunksize), input)) :
         LET r == ChunkedUpload(cur, input, args.chunksize, reply)
         IN /\ net' = Append(net, r.request)
            /\ input' = input - r.sent
            /\ cur' = r.session
            /\ err' = r.err
            /\ IF r.err # NoErr /\ r.err # ErrEOF
               THEN /\ pc' = "done"
                    /\ ret' = [returned |-> TRUE, panic |-> FALSE,
                               entry |-> [isnil |-> TRUE, val |-> ZeroEntry], err |-> r.err]
               ELSE /\ pc' = "loop"
                    /\ ret' = ret
    /\ UNCHANGED <<op, args, fs>>

\* return db.CommitChunkedUpload(cur.UploadID, dst, overwrite, parentRev)
UploadByChunkCommit ==
    /\ pc = "loop"
    /\ err # NoErr
    /\ IF cur.isnil
       THEN /\ ret' = [returned |-> FALSE, panic |-> TRUE,
                       entry |-> [isnil |-> TRUE, val |-> ZeroEntry], err |-> NoErr]
            /\ net' = net
       ELSE \E reply \in CommitReplies :
              LET r == CommitChunkedUpload(cur.UploadID, args.dst, args.overwrite,
                                           args.parentRev, reply)
              IN /\ net' = Append(net, r.request)
                 /\ ret' = [returned |-> TRUE, panic |-> FALSE,
                            entry |-> r.ret.entry, err |-> r.ret.err]
    /\ pc' = "done"
    /\ UNCHANGED <<op, args, cur, err, input, fs>>

\* CommitChunkedUpload called on its own, with an upload id the caller has.
CommitChunkedUploadCall ==
    /\ pc = "idle"
    /\ \E uploadid \in UploadIDs, target \in Targets, reply \in CommitReplies :
         LET r == CommitChunkedUpload(uploadid, target.dst, target.overwrite,
                                      target.parentRev, reply)
         IN /\ op' = "CommitChunkedUpload"
            /\ args' = [uploadid |-> uploadid, dst |-> target.dst,
                        overwrite |-> target.overwrite, parentRev |-> target.parentRev]
            /\ net' = <<r.request>>
            /\ ret' = [returned |-> TRUE, panic |-> FALSE,
                       entry |-> r.ret.entry, err |-> r.ret.err]
    /\ pc' = "done"
    /\ UNCHANGED <<cur, err, input, fs>>

(***************************************************************************)
(* Metadata, Search and Revisions: one request through doRequest.          *)
(***************************************************************************)
Metadata ==
    /\ pc = "idle"
    /\ \E src \in Srcs, o \in MetadataOptions, limit \in Limits,
          reply \in ApiReplies({MarshalEntry(e) : e \in Entries}), order \in RangeOrders :
         LET r == doRequest("GET", <<"metadata", "dropbox", src>>,
                            MetadataParams(o.list, o.includeDeleted, o.hash, o.rev, limit),
                            EntryReceiver, URLParses(src), reply, order)
         IN /\ op' = "Metadata"
            /\ args' = [src |-> src, list |-> o.list, includeDeleted |-> o.includeDeleted,
                        hash |-> o.hash, rev |-> o.rev, limit |-> limit]
            /\ net' = r.requests
            /\ ret' = [returned |-> TRUE, panic |-> FALSE, val |-> r.val, err |-> r.err]
    /\ pc' = "done"
    /\ UNCHANGED <<cur, err, input, fs>>

Search ==
    /\ pc = "idle"
    /\ \E path \in Srcs, includeDeleted \in BOOLEAN, fileLimit \in Limits,
          reply \in ApiReplies({EntryListBody}), order \in RangeOrders :
         LET r == doRequest("GET", <<"search", "dropbox", path>>,
                            SearchParams("q", fileLimit, includeDeleted),
                            EntriesReceiver, URLParses(path), reply, order)
         IN /\ op' = "Search"
            /\ args' = [path |-> path, query |-> "q", limit |-> fileLimit,
                        includeDeleted |-> includeDeleted]
            /\ net' = r.requests
            /\ ret' = [returned |-> TRUE, panic |-> FALSE, val |-> r.val, err |-> r.err]
    /\ pc' = "done"
    /\ UNCHANGED <<cur, err, input, fs>>

Revisions ==
    /\ pc = "idle"
    /\ \E src \in Srcs, revLimit \in Limits,
          reply \in ApiReplies({EntryListBody}), order \in RangeOrders :
         LET r == doRequest("GET", <<"revisions", "dropbox", src>>,
                            RevisionsParams(revLimit),
                            EntriesReceiver, URLParses(src), reply, order)
         IN /\ op' = "Revisions"
            /\ args' = [src |-> src, limit |-> revLimit]
            /\ net' = r.requests
            /\ ret' = [returned |-> TRUE, panic |-> FALSE, val |-> r.val, err |-> r.err]
    /\ pc' = "done"
    /\ UNCHANGED <<cur, err, input, fs>>

DeltaCall ==
    /\ pc = "idle"
    /\ \E a \in DeltaArgs, reply \in DeltaReplies :
         LET r == Delta(a.cursor, a.pathPrefix, reply, <<"p1", "p2">>)
         IN /\ op' = "Delta"
            /\ args' = a
            /\ net' = r.requests
            /\ ret' = [returned |-> TRUE, panic |-> FALSE, page |-> r.page,
                       heap |-> r.heap, err |-> r.err]
    /\ pc' = "done"
    /\ UNCHANGED <<cur, err, input, fs>>

LongPollDeltaCall ==
    /\ pc = "idle"
    /\ \E cursor \in {"", "c1"}, timeout \in Timeouts, reply \in PollReplies :
         LET r == LongPollDelta(cursor, timeout, reply)
         IN /\ op' = "LongPollDelta"
            /\ args' = [cursor |-> cursor, timeout |-> timeout]
            /\ net' = r.requests
            /\ ret' = [returned |-> TRUE, panic |-> FALSE, poll |-> r.poll, err |-> r.err]
    /\ pc' = "done"
    /\ UNCHANGED <<cur, err, input, fs>>

\* The input holds the bytes the caller declares (none for a negative size).
FilesPutCall ==
    /\ pc = "idle"
    /\ \E size \in PutSizes, target \in PutTargets, reply \in CommitReplies :
         LET avail == IF size < 0 THEN 0 ELSE size
             r == FilesPut(avail, size, target.dst, target.overwrite,
                           target.parentRev, reply)
         IN /\ op' = "FilesPut"
            /\ args' = [size |-> size, dst |-> target.dst, overwrite |-> target.overwrite,
                        parentRev |-> target.parentRev]
            /\ net' = r.requests
            /\ input' = avail - r.read
            /\ ret' = [returned |-> TRUE, panic |-> FALSE, entry |-> r.entry, err |-> r.err]
    /\ pc' = "done"
    /\ UNCHANGED <<cur, err, fs>>

\* DownloadToFile(src, dst, rev); the destination is as `before` when the
\* call starts.
DownloadToFileCall ==
    /\ pc = "idle"
    /\ \E before \in LocalFiles, createok \in BOOLEAN, src \in DownloadSrcs,
          rev \in Revs, reply \in DownloadReplies(0) :
         LET r == DownloadToFile(before, createok, src, rev, reply)
         IN /\ op' = "DownloadToFile"
            /\ args' = [before |-> before, openok |-> createok, src |-> src, rev |-> rev]
            /\ net' = r.requests
            /\ fs' = r.file
            /\ ret' = [returned |-> TRUE, panic |-> FALSE, err |-> r.err]
    /\ pc' = "done"
    /\ UNCHANGED <<cur, err, input>>

\* DownloadToFileResume(src, dst, rev); the server is asked for the bytes
\* from the length of the destination on.
DownloadToFileResumeCall ==
    /\ pc = "idle"
    /\ \E before \in LocalFiles, openok \in BOOLEAN, statok \in BOOLEAN,
          src \in DownloadSrcs, rev \in Revs :
         \E reply \in DownloadReplies(Len(before.bytes)) :
           LET r == DownloadToFileResume(before, openok, statok, src, rev, reply)
           IN /\ op' = "DownloadToFileResume"
              /\ args' = [before |-> before, openok |-> openok, statok |-> statok,
                          src |-> src, rev |-> rev]
              /\ net' = r.requests
              /\ fs' = r.file
              /\ ret' = [returned |-> TRUE, panic |-> FALSE, err |-> r.err]
    /\ pc' = "done"
    /\ UNCHANGED <<cur, err, input>>

\* ThumbnailsToFile(src, dst, format, size)
ThumbnailsToFileCall ==
    /\ pc = "idle"
    /\ \E before \in LocalFiles, createok \in BOOLEAN, src \in DownloadSrcs,
          format \in ThumbnailFormats, size \in ThumbnailSizes,
          reply \in ThumbnailReplies :
         LET r == ThumbnailsToFile(before, createok, src, format, size, reply)
         IN /\ op' = "ThumbnailsToFile"
            /\ args' = [before |-> before, openok |-> createok, src |-> src,
                        format |-> format, size |-> size]
            /\ net' = r.requests
            /\ fs' = r.file
            /\ ret' = [returned |-> TRUE, panic |-> FALSE, entry |-> r.entry, err |-> r.err]
    /\ pc' = "done"
    /\ UNCHANGED <<cur, err, input>>

\* The call has returned to its caller: the client is as it was.
Return ==
    /\ pc = "done"
    /\ op' = "none"
    /\ args' = NoArgs
    /\ pc' = "idle"
    /\ net' = <<>>
    /\ cur' = NilSession
    /\ err' = NoErr
    /\ input' = 0
    /\ ret' = NoRet
    /\ fs' = NoFile

Next ==
    \/ UploadByChunkCall
    \/ UploadByChunkLoop
    \/ UploadByChunkCommit
    \/ CommitChunkedUploadCall
    \/ Metadata
    \/ Search
    \/ Revisions
    \/ DeltaCall
    \/ LongPollDeltaCall
    \/ FilesPutCall
    \/ DownloadToFileCall
    \/ DownloadToFileResumeCall
    \/ ThumbnailsToFileCall
    \/ Return

Spec == Init /\ [][Next]_vars

(***************************************************************************)
(* The claims.                                                             *)
(***************************************************************************)
IsChunkCall(q) == q.endpoint = "chunked_upload"
IsCommitCall(q) == q.endpoint = "commit_chunked_upload"
\* The places of net that hold chunk calls, and those that hold commits.
ChunkCallIdx == {i \in DOMAIN net : IsChunkCall(net[i])}
CommitCallIdx == {i \in DOMAIN net : IsCommitCall(net[i])}
\* A reply that carries status 200 and a body of the given keys and types.
IsSuccess(reply, keys) ==
    /\ reply.ok
    /\ reply.readok
    /\ reply.status = 200
    /\ reply.body.t = "obj"
    /\ \A k \in DOMAIN keys :
         k \in DOMAIN reply.body.o /\ reply.body.o[k].t = keys[k]
ChunkSucceeded(reply) == IsSuccess(reply, [upload_id |-> "str", offset |-> "num"])
CommitSucceeded(reply) ==
    IsSuccess(reply, [path |-> "str", bytes |-> "num", is_dir |-> "bool"])
\* The chunk size in effect for the run, as the claim words it.
EffectiveChunkSize ==
    IF args.chunksize <= 0 THEN DefaultChunkSize ELSE Min(args.chunksize, MaxPutFileSize)
\* The chunk calls the claim promises for the run.
ExpectedChunkCalls ==
    LET c == EffectiveChunkSize
    IN IF args.size % c = 0 THEN args.size \div c + 1 ELSE (args.size + c - 1) \div c

\* C1: when every chunk request and the commit request succeed, UploadByChunk
\* on an N-byte source with effective chunk size c issues exactly ceil(N/c)
\* chunk calls when N is not a multiple of c and exactly N/c + 1 when it is
\* (the last one carrying zero bytes), each carrying the next c bytes or what
\* is left, then exactly one commit call, and returns the Entry the commit
\* reply carries.  While the loop runs it has issued no more calls than that
\* and it leaves the loop exactly when it has issued them all.
C1_ChunkCallCount ==
    (op = "UploadByChunk" /\ \A i \in ChunkCallIdx : ChunkSucceeded(net[i].reply)) =>
        LET c == EffectiveChunkSize
            k == Cardinality(ChunkCallIdx)
        IN /\ \A i \in ChunkCallIdx :
                /\ i <= ExpectedChunkCalls
                /\ net[i].bytes = Min(c, args.size - (i - 1) * c)
           /\ (args.size % c = 0 /\ k = ExpectedChunkCalls) => net[k].bytes = 0
           /\ pc = "loop" => (err = NoErr <=> k < ExpectedChunkCalls)
           /\ pc = "loop" => CommitCallIdx = {}
           /\ pc = "done" =>
                /\ k = ExpectedChunkCalls
                /\ CommitCallIdx = {k + 1}
                /\ Len(net) = k + 1
                /\ ret.returned
                /\ CommitSucceeded(net[k + 1].reply) =>
                     /\ ret.err = NoErr
                     /\ ~ret.entry.isnil
                     /\ MarshalEntry(ret.entry.val) = net[k + 1].reply.body

\* C1 witness: the 10 MiB source with 4 MiB chunks went up in 4+4+2 MiB and
\* was committed.
C1_Witness ==
    /\ op = "UploadByChunk"
    /\ pc = "done"
    /\ args.size = 10 * 1024 * 1024
    /\ args.chunksize = DefaultChunkSize
    /\ Len(net) = 4
    /\ \A i \in 1..3 : ChunkSucceeded(net[i].reply)
    /\ net[3].bytes = 2 * 1024 * 1024
    /\ CommitSucceeded(net[4].reply)
    /\ ret.err = NoErr

\* A chunk reply that is a transport error or that does not decode.
ChunkFailed(reply) ==
    \/ ~reply.ok
    \/ ~reply.readok
    \/ reply.body.t # "obj"
    \/ \E k \in DOMAIN ChunkSchema :
         /\ ChunkSchema[k].key \in DOMAIN reply.body.o
         /\ reply.body.o[ChunkSchema[k].key].t \notin {ChunkSchema[k].type, "null"}

\* C2: a chunk step that hits a transport error or does not decode the reply
\* is the last request of the run (no commit, no other chunk), the run is
\* over, and it returned an error; this for every chunk step, the one that
\* read fewer bytes than the chunk size included.
C2_FailedChunkAborts ==
    op = "UploadByChunk" =>
        \A i \in ChunkCallIdx :
            ChunkFailed(net[i].reply) =>
                /\ i = Len(net)
                /\ pc = "done"
                /\ ret.returned
                /\ ret.err # NoErr
                /\ ret.entry.isnil

\* The upload id and the offset a chunk reply carries, "" and 0 when it
\* carries none.
WireUploadID(reply) ==
    IF /\ reply.readok
       /\ reply.body.t = "obj"
       /\ "upload_id" \in DOMAIN reply.body.o
       /\ reply.body.o["upload_id"].t = "str"
    THEN reply.body.o["upload_id"].s ELSE ""
WireOffset(reply) ==
    IF /\ reply.readok
       /\ reply.body.t = "obj"
       /\ "offset" \in DOMAIN reply.body.o
       /\ reply.body.o["offset"].t = "num"
    THEN reply.body.o["offset"].n ELSE 0

\* C3: in one UploadByChunk run the first chunk call goes to the session-less
\* endpoint, every later chunk call carries the upload id and the offset of
\* the chunk reply just before it, the commit carries the upload id of the
\* last chunk reply, and the commit is the last request of the run: there is
\* at most one and no chunk call follows it.
C3_SessionLinear ==
    op = "UploadByChunk" =>
        /\ \A i \in ChunkCallIdx :
             /\ i = 1 => ~net[i].session
             /\ i > 1 =>
                  /\ IsChunkCall(net[i - 1])
                  /\ net[i].session
                  /\ net[i].upload_id = WireUploadID(net[i - 1].reply)
                  /\ net[i].offset = WireOffset(net[i - 1].reply)
        /\ \A i \in CommitCallIdx :
             /\ i = Len(net)
             /\ i > 1
             /\ IsChunkCall(net[i - 1])
             /\ net[i].params["upload_id"] = WireUploadID(net[i - 1].reply)
        /\ Cardinality(CommitCallIdx) <= 1
        /\ pc = "done" => ~ENABLED UploadByChunkLoop

\* C3 witness: a run of three chunk calls, whose replies named two upload
\* ids, and a commit.
C3_Witness ==
    /\ op = "UploadByChunk"
    /\ pc = "done"
    /\ Len(net) = 4
    /\ IsCommitCall(net[4])
    /\ net[2].upload_id = "u1"
    /\ net[3].upload_id = "u2"
    /\ net[3].offset > 0
    /\ net[4].params["upload_id"] = "u1"

\* A commit reply that rejects the commit: not status 200, with the error
\* envelope as its body.
CommitRejected(reply) ==
    /\ reply.ok
    /\ reply.readok
    /\ reply.status # 200
    /\ reply.body.t = "obj"
    /\ "error" \in DOMAIN reply.body.o

\* C4: CommitChunkedUpload returns a non-nil error whenever the server
\* rejects the commit (a non-success status with an error body); it never
\* returns a nil error with an Entry then.
C4_CommitRejectionIsError ==
    (op = "CommitChunkedUpload" /\ pc = "done" /\ CommitRejected(net[1].reply)) =>
        ret.err # NoErr
\* The calls that are one doRequest.
DoRequestOps == {"Metadata", "Search", "Revisions"}

\* C5: doRequest decodes the body into the receiver and returns a nil error
\* only when the status is 200; for every other status it returns a non-nil
\* error: 404 gives os.ErrNotExist, 401 gives ErrNotAuth, 400 and 405 give an
\* error built from the envelope (the message, or 'param: reason' of one
\* parameter), and any other status than 200 is an error as well.
C5_OnlyStatus200Succeeds ==
    (op \in DoRequestOps /\ pc = "done" /\ net # <<>> /\ net[1].reply.ok
        /\ net[1].reply.readok) =>
        LET reply == net[1].reply
            e == reply.body.o["error"]
        IN /\ ret.err = NoErr => reply.status = 200
           /\ reply.status # 200 => ret.err # NoErr
           /\ reply.status = StatusNotFound => ret.err = ErrNotExist
           /\ reply.status = StatusUnauthorized => ret.err = ErrNotAuth
           /\ (reply.status \in {StatusBadRequest, StatusMethodNotAllowed}
                 /\ reply.body \in ErrorBodies) =>
                /\ e.t = "str" => ret.err = Errorf(e.s)
                /\ (e.t = "obj" /\ \E k \in DOMAIN e.o : e.o[k].t = "str") =>
                     \E k \in DOMAIN e.o :
                        e.o[k].t = "str" /\ ret.err = Errorf(k \o ": " \o e.o[k].s)

\* The limit a call sends: the default for a limit of 0 or less, the maximum
\* for one above it, the caller's otherwise.
ClampedLimit(limit, default, max) ==
    IF limit <= 0 THEN default ELSE IF limit > max THEN max ELSE limit

\* C10: Metadata, Search and Revisions send the documented default for a
\* limit of 0 or less, the caller's value when it is in 1..maximum and the
\* maximum above it (Metadata 10000 / 25000, Revisions 10 / 1000, Search
\* 1000 / 1000); the limit sent is in 1..maximum.
C10_LimitClamped ==
    (op \in DoRequestOps /\ pc = "done" /\ net # <<>>) =>
        LET sent == IF op = "Revisions" THEN net[1].params["rev_limit"]
                    ELSE net[1].params["file_limit"]
            default == CASE op = "Metadata" -> 10000
                         [] op = "Revisions" -> 10
                         [] op = "Search" -> 1000
            max == CASE op = "Metadata" -> 25000
                     [] op = "Revisions" -> 1000
                     [] op = "Search" -> 1000
        IN /\ sent = ToString(ClampedLimit(args.limit, default, max))
           /\ \E n \in 1..max : sent = ToString(n)

\* C10 witness: Search with fileLimit 5000 sent file_limit=1000.
C10_Witness ==
    /\ op = "Search"
    /\ pc = "done"
    /\ args.limit = 5000
    /\ net # <<>>
    /\ net[1].params["file_limit"] = "1000"
\* The entries list of the delta reply the call got with status 200, as it
\* is on the wire: the items of each element, none for null.
HasDeltaReply ==
    /\ op = "Delta"
    /\ pc = "done"
    /\ net # <<>>
    /\ net[1].reply.ok
    /\ net[1].reply.readok
    /\ net[1].reply.status = 200
    /\ net[1].reply.body.t = "obj"
WireEntries ==
    LET l == net[1].reply.body.o["entries"].a
    IN [i \in DOMAIN l |-> IF l[i].t = "arr" THEN l[i].a ELSE <<>>]
\* The value of key k of JSON object j, d when it has none.
FieldOr(j, k, d, get(_)) == IF j.t = "obj" /\ k \in DOMAIN j.o THEN get(j.o[k]) ELSE d
\* An element of two items, a string (or null) and an Entry object (or null).
WellFormedElement(el) ==
    /\ Len(el) = 2
    /\ el[1].t \in {"str", "null"}
    /\ el[2].t \in {"obj", "null"}
    /\ el[2].t = "obj" =>
         /\ FieldOr(el[2], "path", "str", LAMBDA v : v.t) \in {"str", "null"}
         /\ FieldOr(el[2], "bytes", "num", LAMBDA v : v.t) \in {"num", "null"}
         /\ FieldOr(el[2], "is_dir", "bool", LAMBDA v : v.t) \in {"bool", "null"}

\* C6: when an element of the entries list of the reply does not have exactly
\* two items, Delta returns no page and an error, wherever the element is in
\* the list; the error is 'malformed reply' when the elements before the first
\* such element are well-formed, and otherwise it is the JSON error of the
\* element before it that does not decode.
C6_WrongLengthIsMalformed ==
    (HasDeltaReply /\ \E i \in DOMAIN WireEntries : Len(WireEntries[i]) # 2) =>
        LET first == CHOOSE i \in DOMAIN WireEntries :
                        /\ Len(WireEntries[i]) # 2
                        /\ \A k \in 1..(i - 1) : Len(WireEntries[k]) = 2
        IN /\ ret.page.isnil
           /\ ret.err # NoErr
           /\ IF \A k \in 1..(first - 1) : WellFormedElement(WireEntries[k])
              THEN ret.err = Errorf("malformed reply")
              ELSE ret.err = ErrJSONType

\* C6 witness: a reply whose third element has three items, after two
\* well-formed ones, was refused.
C6_Witness ==
    /\ HasDeltaReply
    /\ Len(WireEntries) = 3
    /\ WellFormedElement(WireEntries[1])
    /\ WellFormedElement(WireEntries[2])
    /\ Len(WireEntries[3]) = 3
    /\ ret.page.isnil
    /\ ret.err = Errorf("malformed reply")

\* The Entry an Entry object of the wire holds.
WireEntry(j) ==
    [Path |-> FieldOr(j, "path", "", LAMBDA v : IF v.t = "str" THEN v.s ELSE ""),
     Bytes |-> FieldOr(j, "bytes", 0, LAMBDA v : IF v.t = "num" THEN v.n ELSE 0),
     IsDir |-> FieldOr(j, "is_dir", FALSE, LAMBDA v : IF v.t = "bool" THEN v.b ELSE FALSE)]
\* A reply whose fields have their types and whose elements are well-formed.
WellFormedDeltaReply ==
    /\ HasDeltaReply
    /\ net[1].reply.body.o["reset"].t = "bool"
    /\ net[1].reply.body.o["has_more"].t = "bool"
    /\ net[1].reply.body.o["cursor"].t = "str"
    /\ \A i \in DOMAIN WireEntries : WellFormedElement(WireEntries[i])

\* C7: for a well-formed delta reply the page has one DeltaEntry per wire
\* element, in wire order, with that element's path; its Entry is nil exactly
\* when the element's entry has an empty path, and otherwise points to the
\* entry of that element (an Entry put in the pair shape comes back as it
\* was), and no two DeltaEntry values point to the same Entry.
C7_PageMirrorsWire ==
    WellFormedDeltaReply =>
        LET page == ret.page.Entries
        IN /\ ret.err = NoErr
           /\ ~ret.page.isnil
           /\ Len(page) = Len(WireEntries)
           /\ \A i \in DOMAIN WireEntries :
                LET el == WireEntries[i]
                IN /\ page[i].Path = (IF el[1].t = "str" THEN el[1].s ELSE "")
                   /\ page[i].Entry = 0 <=> WireEntry(el[2]).Path = ""
                   /\ page[i].Entry # 0 =>
                        /\ ret.heap[page[i].Entry] = WireEntry(el[2])
                        /\ \A e \in Entries :
                             el[2] = MarshalEntry(e) => ret.heap[page[i].Entry] = e
                        /\ \A k \in DOMAIN WireEntries :
                             k # i => page[k].Entry # page[i].Entry

\* C7 witness: a page of a changed path, a deleted one and another changed
\* one.
C7_Witness ==
    /\ WellFormedDeltaReply
    /\ Len(WireEntries) = 3
    /\ ret.page.Entries[1].Entry # 0
    /\ ret.page.Entries[2].Entry = 0
    /\ ret.page.Entries[3].Entry # 0
    /\ ret.heap[ret.page.Entries[1].Entry] # ret.heap[ret.page.Entries[3].Entry]
\* C8: LongPollDelta issues a request if and only if timeout is 0 or in
\* 30..480; any other timeout (29, 481, the negative ones) returns an
\* out-of-range error with no request made; the timeout parameter is sent
\* only when timeout is not 0, and the cursor always.
C8_TimeoutRange ==
    (op = "LongPollDelta" /\ pc = "done") =>
        LET accepted == args.timeout = 0 \/ (30 <= args.timeout /\ args.timeout <= 480)
        IN /\ Len(net) = (IF accepted THEN 1 ELSE 0)
           /\ ~accepted =>
                /\ ret.err = Errorf("timeout out of range [30; 480]")
                /\ ret.poll.isnil
           /\ accepted =>
                /\ ret.err # Errorf("timeout out of range [30; 480]")
                /\ "timeout" \in DOMAIN net[1].params <=> args.timeout # 0
                /\ args.timeout # 0 => net[1].params["timeout"] = ToString(args.timeout)
                /\ net[1].params["cursor"] = args.cursor

\* C8 witness: timeouts 30 and 480 are sent; here 480, answered.
C8_Witness ==
    /\ op = "LongPollDelta"
    /\ pc = "done"
    /\ args.timeout = 480
    /\ Len(net) = 1
    /\ net[1].params["timeout"] = "480"
    /\ ret.err = NoErr

\* C9: FilesPut with a declared size above 150 MiB returns the size-limit
\* error, issues no request and reads nothing from the input; a declared size
\* of at most 150 MiB is not refused for its size and leads to a single PUT
\* request (to none when the destination makes no URL).
C9_SizeLimit ==
    (op = "FilesPut" /\ pc = "done") =>
        LET limit == 150 * 1024 * 1024
            refused == ret.err.kind = "errorf" /\ ret.entry.isnil /\ net = <<>>
        IN /\ args.size > limit =>
                /\ refused
                /\ input = args.size
           /\ args.size <= limit =>
                /\ ~refused
                /\ Len(net) <= 1
                /\ PathParses(StripSlash(args.dst)) =>
                     /\ Len(net) = 1
                     /\ net[1].method = "PUT"
                     /\ net[1].header.ContentLength = ToString(args.size)

\* C9 witness: a file of exactly 150 MiB was put with one request.
C9_Witness ==
    /\ op = "FilesPut"
    /\ pc = "done"
    /\ args.size = 150 * 1024 * 1024
    /\ Len(net) = 1
    /\ net[1].method = "PUT"
    /\ ret.err = NoErr
    /\ input = 0

\* The byte a download request asks the server to start at: the start of its
\* Range header, 0 when it carries none.
RangeStart(q) ==
    IF q.header = <<>> THEN 0
    ELSE CHOOSE n \in 1..(MaxRemoteLen + 1) :
           q.header.Range = "bytes=" \o ToString(n) \o "-"
IsPrefix(s, t) == Len(s) <= Len(t) /\ SubSeq(t, 1, Len(s)) = s
DownloadRequests == {i \in DOMAIN net : net[i].endpoint = <<"files", "dropbox">>}

\* C11: when DownloadToFile or ThumbnailsToFile returns an error after it has
\* created the destination, the destination does not exist on return;
\* DownloadToFileResume leaves an existing destination in place with the
\* bytes it held as the head of its content, leaves the file it opened in
\* place, and asks the server for the content from the length the
\* destination had.
C11_FailedDownloadLeavesNoFile ==
    /\ (/\ pc = "done"
        /\ op \in {"DownloadToFile", "ThumbnailsToFile"}
        /\ args.openok
        /\ ret.err # NoErr) => ~fs.exists
    /\ (pc = "done" /\ op = "DownloadToFileResume") =>
          /\ args.before.exists =>
                fs.exists /\ IsPrefix(args.before.bytes, fs.bytes)
          /\ args.openok => fs.exists
          /\ ~args.openok => fs = args.before
          /\ \A i \in DownloadRequests :
                RangeStart(net[i]) = Len(args.before.bytes)
\* A download that broke after bytes were written to the destination.
C11_Witness ==
    /\ pc = "done"
    /\ op = "DownloadToFile"
    /\ args.openok
    /\ ret.err = ErrCopy
    /\ Len(net) = 1
    /\ net[1].reply.failat > 0
    /\ ~fs.exists
\* A resume that broke mid-stream with the destination holding more than before.
C11_WitnessResume ==
    /\ pc = "done"
    /\ op = "DownloadToFileResume"
    /\ ret.err = ErrCopy
    /\ Len(args.before.bytes) > 0
    /\ Len(fs.bytes) > Len(args.before.bytes)
    /\ net[1].header # <<>>

\* The run on an empty source stands before the commit: the loop has ended.
EmptyInputAtCommit ==
    /\ op = "UploadByChunk"
    /\ args.size = 0
    /\ pc = "loop"
    /\ err # NoErr

\* C12 as stated: on an empty input UploadByChunk reaches the commit step with
\* a nil session.
C12_NilSessionAtCommit == EmptyInputAtCommit => cur.isnil

\* C12: on an empty input UploadByChunk reaches the commit step with a
\* session that is not nil: it has made one session-less chunk call of zero
\* bytes, holds what that call's reply decoded to, and the commit, which it
\* does issue, carries that upload id; the run ends without a nil dereference.
C12_SessionAtCommit ==
    /\ EmptyInputAtCommit =>
          /\ ~cur.isnil
          /\ err = ErrEOF
          /\ Len(net) = 1
          /\ IsChunkCall(net[1]) /\ ~net[1].session /\ net[1].bytes = 0
          /\ cur.UploadID = WireUploadID(net[1].reply)
    /\ (op = "UploadByChunk" /\ args.size = 0 /\ pc = "done") =>
          /\ ~ret.panic
          /\ ret.returned
          /\ net[1].reply.ok =>
                /\ Len(net) = 2
                /\ IsCommitCall(net[2])
                /\ net[2].params["upload_id"] = WireUploadID(net[1].reply)
\* The empty source stands before the commit with the session of its one
\* chunk call.
C12_Witness ==
    /\ EmptyInputAtCommit
    /\ ~cur.isnil
    /\ cur.UploadID = "u1"
    /\ net[1].bytes = 0

\* The error doRequest returned to Delta for the reply it got.
DeltaRequestErr ==
    doRequest("POST", <<"delta">>, DeltaParams(args.cursor, args.pathPrefix),
              DeltaReceiver, TRUE, net[1].reply, <<"p1", "p2">>).err

\* C13: Delta returns a non-nil error whenever doRequest returned an error,
\* whatever entries were decoded before the failure: no caller receives a
\* page with a nil error from a failed request.
C13_RequestErrorSurfaces ==
    (op = "Delta" /\ pc = "done" /\ DeltaRequestErr # NoErr) => ret.err # NoErr

\* A chunk reply the server gave with a status other than success.
ChunkRefused(reply) == reply.ok /\ reply.status # 200

\* C14: once the server has answered a chunk call of an UploadByChunk run
\* with a non-success status, the run issues no further chunk call with an
\* empty upload id and no commit, and what it returns is an error.
C14_RefusedChunkStopsRun ==
    op = "UploadByChunk" =>
        \A i \in ChunkCallIdx :
            ChunkRefused(net[i].reply) =>
                /\ \A j \in ChunkCallIdx :
                      j > i => ~(net[j].session /\ net[j].upload_id = "")
                /\ \A j \in CommitCallIdx : j < i
                /\ pc = "done" => (ret.returned /\ ret.err # NoErr)

====
